---- MODULE Spec2Model ----
(***************************************************************************)
(* The layered dependency graph of dephell/controllers/graph.py: Layer,    *)
(* Graph, and the Graph's queries, as a state machine over a small         *)
(* universe of Dependency objects.                                         *)
(***************************************************************************)
EXTENDS Integers, Sequences, FiniteSets, TLC

\* ------------------------------------------------------------- bounds

\* Most layers a graph grows to: an add that would append one more is not taken.
MaxLayers == 2
\* Largest `level` a caller passes to Graph.add / Graph.get_leafs: one beyond
\* the deepest index a graph of MaxLayers layers has.
MaxLevel == MaxLayers
\* Depth of nested calls after which the interpreter raises RecursionError.
RecursionLimit == 6
\* Most children the resolver fetches for one dependency.
MaxChildren == 1
\* Highest version the Version Provider knows of a package
MaxVersion == 2
\* Most requirements one candidate declares
MaxRequires == 2

\* ----------------------------------------------------- the Dependency objects

\* Dependency instances (object identities). "a" and "a2" are two instances
\* of the same package name.
Deps == {"r", "a", "a2", "b"}

\* isinstance(dep, RootDependency)
RootDependency == {"r"}

\* dep.name
name == [d \in Deps |-> IF d = "a2" THEN "a" ELSE d]

Names == {name[d] : d \in Deps}

\* dep.constraint.sources: the names of the parents that contributed a constraint
sources == [d \in Deps |->
              CASE d = "r"  -> {}
                [] d = "a"  -> {"r"}
                [] d = "a2" -> {"b"}
                [] d = "b"  -> {"a", "r"}]

None == "None"
\* An optional `level` argument: <<>> when omitted (None), <<l>> when given
NoLevel == <<>>
NoError == "none"
DuplicateError == "KeyError: Dependency already added in layer"
OrphanError == "KeyError: Can't find any parent for dependency"
RecursionError == "RecursionError"
UnsatisfiableConstraintError == "UnsatisfiableConstraintError"
\* The engine of a graph no resolution runs on
NoEngine == [status |-> "idle"]

VARIABLES
    layers,        \* Graph._layers: sequence of [level, mapping]; mapping is the
                   \* dict Layer._mapping as the sequence of its values in insertion
                   \* order (the key of a value is its name)
    deps_maps,     \* Graph._deps.maps (ChainMap), newest first: each entry is the
                   \* dict it references: [shared |-> TRUE] when that dict is the
                   \* very object the layer of that position holds in _mapping,
                   \* else [shared |-> FALSE, mapping |-> its own content]
    roots,         \* Graph._roots
    conflict,      \* Graph.conflict
    used,          \* dep.used, per instance
    applied,       \* dep.applied, per instance
    locked,        \* dep.locked, per instance
    dependencies,  \* dep.dependencies, per instance: sequence of instances
    ret,           \* the last call and what it returned or raised
    engine         \* the Resolution Engine working on this graph: its Version
                   \* Provider, its position in the loop and what it has chosen

vars == <<layers, deps_maps, roots, conflict, used, applied, locked, dependencies, ret,
          engine>>

\* ------------------------------------------------------------- helpers

Range(s) == {s[i] : i \in 1..Len(s)}

Min(a, b) == IF a < b THEN a ELSE b

\* The keys of a dict
Keys(mapping) == {name[mapping[k]] : k \in 1..Len(mapping)}

\* dict.get(name): the value stored under the key, or None
DictGet(mapping, n) ==
    IF n \in Keys(mapping)
    THEN mapping[CHOOSE k \in 1..Len(mapping) : name[mapping[k]] = n]
    ELSE None

\* ------------------------------------------------------------- Layer

\* Layer.get(name)
LayerGet(layer, n) == DictGet(layer.mapping, n)

\* Layer.add with the check "dep.name in self._mapping" left out
LayerAddUnchecked(layer, dep) ==
    [err |-> NoError, layer |-> [layer EXCEPT !.mapping = Append(@, dep)]]

\* Layer.add(dep): the error raised and the layer afterwards
LayerAdd(layer, dep) ==
    IF name[dep] \in Keys(layer.mapping)
    THEN [err |-> DuplicateError, layer |-> layer]
    ELSE [err |-> NoError, layer |-> [layer EXCEPT !.mapping = Append(@, dep)]]

\* Layer.__init__(level, *deps): add each dep in turn to an empty mapping
RECURSIVE LayerAddAll(_, _)
LayerAddAll(layer, ds) ==
    IF ds = <<>> THEN [err |-> NoError, layer |-> layer]
    ELSE LET r == LayerAdd(layer, Head(ds))
         IN  IF r.err # NoError THEN r ELSE LayerAddAll(r.layer, Tail(ds))

LayerInit(level, ds) == LayerAddAll([level |-> level, mapping |-> <<>>], ds)

\* Layer.clear(): a NEW dict holding the used entries is bound to _mapping
LayerClear(layer) ==
    [layer EXCEPT !.mapping = SelectSeq(@, LAMBDA d : used[d])]

\* Layer.__contains__(dep or name)
LayerContains(layer, n) == n \in Keys(layer.mapping)

\* ------------------------------------------------------------- Graph

\* The dict that entry k of Graph._deps.maps references. Entry k was created
\* for the layer at index Len(layers) - k + 1 (new_child puts the newest first).
MapOf(k) ==
    IF deps_maps[k].shared
    THEN layers[Len(layers) - k + 1].mapping
    ELSE deps_maps[k].mapping

SharedMap == [shared |-> TRUE, mapping |-> <<>>]

\* Graph.add(dep, level=level) merging by name: on success the entries of
\* dep's name are taken out of the other layers
AddAtLevelMerging(dep, level) ==
    LET r == IF level < Len(layers) THEN LayerAdd(layers[level + 1], dep)
             ELSE LayerInit(level, <<dep>>)
        others == [i \in 1..Len(layers) |->
                     IF i = level + 1 \/ r.err # NoError THEN layers[i]
                     ELSE [layers[i] EXCEPT !.mapping =
                              SelectSeq(@, LAMBDA d : name[d] # name[dep])]]
    IN  IF level < Len(layers)
        THEN [err |-> r.err,
              layers |-> [others EXCEPT ![level + 1] = r.layer],
              deps_maps |-> deps_maps]
        ELSE [err |-> r.err,
              layers |-> Append(others, r.layer),
              deps_maps |-> <<SharedMap>> \o deps_maps]

\* Graph.add(dep, level=level) with level given and dep not a root:
\* the error raised and the graph afterwards
AddAtLevel(dep, level) ==
    IF level < Len(layers)
    THEN LET r == LayerAdd(layers[level + 1], dep)
         IN  [err |-> r.err,
              layers |-> [layers EXCEPT ![level + 1] = r.layer],
              deps_maps |-> deps_maps]
    ELSE LET r == LayerInit(level, <<dep>>)
         IN  [err |-> r.err,
              layers |-> Append(layers, r.layer),
              deps_maps |-> <<SharedMap>> \o deps_maps]

\* The (index, position) of every graphed parent named in dep.constraint.sources
ParentPlaces(dep) ==
    {<<i, k>> \in (1..Len(layers)) \X (1..Cardinality(Deps)) :
        /\ k <= Len(layers[i].mapping)
        /\ name[layers[i].mapping[k]] \in sources[dep]}

\* The first layer, scanning from the shallowest, that holds such a parent
FirstParentLayer(dep) ==
    LET i == CHOOSE i \in {p[1] : p \in ParentPlaces(dep)} :
                 \A p \in ParentPlaces(dep) : i <= p[1]
    IN  layers[i]

\* Graph.add with a root registered in _roots before layer 0 takes it
GraphAddRootFirst(dep, level) ==
    IF dep \in RootDependency
    THEN LET r == LayerAdd(layers[1], dep)
         IN  [err |-> r.err,
              layers |-> [layers EXCEPT ![1] = r.layer],
              deps_maps |-> deps_maps,
              roots |-> Append(roots, dep)]
    ELSE IF level # NoLevel
    THEN AddAtLevel(dep, level[1]) @@ [roots |-> roots]
    ELSE IF ParentPlaces(dep) # {}
    THEN AddAtLevel(dep, FirstParentLayer(dep).level + 1) @@ [roots |-> roots]
    ELSE [err |-> OrphanError, layers |-> layers, deps_maps |-> deps_maps,
          roots |-> roots]

\* Graph.add(dep, level=level): error and the graph afterwards
GraphAdd(dep, level) ==
    IF dep \in RootDependency
    THEN LET r == LayerAdd(layers[1], dep)
         IN  [err |-> r.err,
              layers |-> [layers EXCEPT ![1] = r.layer],
              deps_maps |-> deps_maps,
              roots |-> IF r.err = NoError THEN Append(roots, dep) ELSE roots]
    ELSE IF level # NoLevel
    THEN AddAtLevel(dep, level[1]) @@ [roots |-> roots]
    ELSE IF ParentPlaces(dep) # {}
    THEN AddAtLevel(dep, FirstParentLayer(dep).level + 1) @@ [roots |-> roots]
    ELSE [err |-> OrphanError, layers |-> layers, deps_maps |-> deps_maps,
          roots |-> roots]

\* Graph.get_layer(level)
GetLayerAt(level) == layers[level + 1]

\* Graph.get_layer(dep): scan reversed(self._layers) from index i down for a
\* layer holding dep's name; <<layer>> when found, <<>> for None
RECURSIVE GetLayerFrom(_, _)
GetLayerFrom(dep, i) ==
    IF i = 0 THEN <<>>
    ELSE IF LayerContains(layers[i], name[dep]) THEN <<layers[i]>>
    ELSE GetLayerFrom(dep, i - 1)

GetLayerOf(dep) == GetLayerFrom(dep, Len(layers))

\* Graph.get with the layers scanned shallowest first
RECURSIVE GetShallowest(_, _)
GetShallowest(n, i) ==
    IF i > Len(layers) THEN None
    ELSE IF LayerGet(layers[i], n) # None THEN LayerGet(layers[i], n)
    ELSE GetShallowest(n, i + 1)

GetMutant(n) == GetShallowest(n, 1)

\* Graph.get(name): scan reversed(self._layers) from index i down
RECURSIVE GetFrom(_, _)
GetFrom(n, i) ==
    IF i = 0 THEN None
    ELSE IF LayerGet(layers[i], n) # None THEN LayerGet(layers[i], n)
    ELSE GetFrom(n, i - 1)

Get(n) == GetFrom(n, Len(layers))

\* layers[:n] of Python: the first n layers, all of them when n is larger
FirstLayers(n) == SubSeq(layers, 1, Min(n, Len(layers)))

\* The loop of Graph.get_leafs over the layers ls
RECURSIVE Leafs(_)
Leafs(ls) ==
    IF ls = <<>> THEN <<>>
    ELSE SelectSeq(Head(ls).mapping, LAMBDA d : ~applied[d] /\ used[d])
            \o Leafs(Tail(ls))

\* Graph.get_leafs with the slice layers[:level] for layers[:level + 1]
GetLeafsShort(level) ==
    Leafs(IF level = NoLevel THEN layers ELSE FirstLayers(level[1]))

\* Graph.get_leafs(level)
GetLeafs(level) ==
    Leafs(IF level = NoLevel THEN layers ELSE FirstLayers(level[1] + 1))

\* ------------------------------------------------------------- traversals

\* d[dep.name] = dep on a dict: a key already there keeps its place
DictSet(mapping, dep) ==
    IF name[dep] \in Keys(mapping)
    THEN [k \in 1..Len(mapping) |->
             IF name[mapping[k]] = name[dep] THEN dep ELSE mapping[k]]
    ELSE Append(mapping, dep)

\* d.update(other)
RECURSIVE DictUpdate(_, _)
DictUpdate(mapping, other) ==
    IF other = <<>> THEN mapping
    ELSE DictUpdate(DictSet(mapping, Head(other)), Tail(other))

\* Graph.get_children(dep) as call number `depth` on the stack, and its loop
\* from child i on: [err, result]
RECURSIVE GetChildrenAt(_, _), ChildrenLoop(_, _, _, _)

\* get_children without the test "if not dep.locked"
GetChildrenOfUnlocked(dep, depth) ==
    IF depth > RecursionLimit THEN [err |-> RecursionError, result |-> <<>>]
    ELSE ChildrenLoop(dep, 1, <<>>, depth)

GetChildrenAt(dep, depth) ==
    IF depth > RecursionLimit THEN [err |-> RecursionError, result |-> <<>>]
    ELSE IF ~locked[dep] THEN [err |-> NoError, result |-> <<>>]
    ELSE ChildrenLoop(dep, 1, <<>>, depth)

ChildrenLoop(dep, i, result, depth) ==
    IF i > Len(dependencies[dep]) THEN [err |-> NoError, result |-> result]
    ELSE LET child == dependencies[dep][i]
         IN  IF GetLayerOf(child) = <<>>
             THEN ChildrenLoop(dep, i + 1, result, depth)
             ELSE LET kept == IF name[child] \in Keys(result) THEN result
                              ELSE DictSet(result, child)
                      sub == GetChildrenAt(child, depth + 1)
                  IN  IF sub.err # NoError THEN sub
                      ELSE ChildrenLoop(dep, i + 1,
                                        DictUpdate(kept, sub.result), depth)

GetChildren(dep) == GetChildrenAt(dep, 1)

\* The instances of the layers in the order "for layer in self._layers: for
\* parent in layer" visits them
RECURSIVE Concat(_)
Concat(ls) == IF ls = <<>> THEN <<>> ELSE Head(ls).mapping \o Concat(Tail(ls))

\* The loop over parent.dependencies of get_parents: some child of parent has
\* dep's name, and that name is not in avoid
Lists(parent, dep, avoid) ==
    \E k \in 1..Len(dependencies[parent]) :
        /\ name[dependencies[parent][k]] = name[dep]
        /\ name[dependencies[parent][k]] \notin avoid

\* The loops of get_parents for one dep over the graph's instances
RECURSIVE ScanParents(_, _, _, _)
ScanParents(dep, candidates, avoid, parents) ==
    IF candidates = <<>> THEN parents
    ELSE ScanParents(dep, Tail(candidates), avoid,
                     IF Lists(Head(candidates), dep, avoid)
                     THEN DictSet(parents, Head(candidates))
                     ELSE parents)

\* The loop "for dep in deps" of get_parents
RECURSIVE ScanDeps(_, _, _)
ScanDeps(deps, avoid, parents) ==
    IF deps = <<>> THEN parents
    ELSE ScanDeps(Tail(deps), avoid,
                  ScanParents(Head(deps), Concat(layers), avoid, parents))

\* get_parents without the call to itself: the direct parents alone
GetParentsDirect(deps, avoid, depth) ==
    [err |-> NoError, result |-> ScanDeps(deps, avoid, <<>>)]

\* Graph.get_parents(*deps, avoid=avoid) as call number `depth` on the stack:
\* [err, result]. avoid is used for membership alone: a set of names.
RECURSIVE GetParentsAt(_, _, _)
GetParentsAt(deps, avoid, depth) ==
    IF depth > RecursionLimit THEN [err |-> RecursionError, result |-> <<>>]
    ELSE LET parents == ScanDeps(deps, avoid, <<>>)
         IN  IF parents = <<>> THEN [err |-> NoError, result |-> <<>>]
             ELSE LET sub == GetParentsAt(parents, avoid \cup Keys(deps), depth + 1)
                  IN  IF sub.err # NoError THEN sub
                      ELSE [err |-> NoError,
                            result |-> DictUpdate(parents, sub.result)]

GetParents(deps, avoid) == GetParentsAt(deps, avoid, 1)

\* ------------------------------------------------------------- VCSLink

\* Strings are sequences of characters. The characters of the classes the
\* patterns name:
LowerCase ==
    {"a", "b", "c", "d", "e", "f", "g", "h", "i", "j", "k", "l", "m",
     "n", "o", "p", "q", "r", "s", "t", "u", "v", "w", "x", "y", "z"}

\* [a-fA-F0-9] of rex_hash
HexChars ==
    {"a", "b", "c", "d", "e", "f", "A", "B", "C", "D", "E", "F",
     "0", "1", "2", "3", "4", "5", "6", "7", "8", "9"}

\* \s, and the character "." does not match
WhiteSpace == {" ", "\t", "\n", "\r"}
NewLine == {"\n"}

AttributeError == "AttributeError"

\* No match: rex.search returns None, and so does VCSLink.parse
NoMatch == [matched |-> FALSE]

\* None as the value of a group that did not take part and of an attribute
\* left at its default; no group matches the empty string
NoString == <<>>

\* s[i..] starts with the literal t
StartsWith(s, i, t) ==
    /\ i + Len(t) - 1 <= Len(s)
    /\ \A k \in 1..Len(t) : s[i + k - 1] = t[k]

\* Every character of s[i..j] is outside the set C
NoneIn(s, i, j, C) == \A k \in i..j : s[k] \notin C

\* rex from the group "name" to "$", at position i: (?:#egg=(?P<name>.+))?$
MatchName(s, i) ==
    IF /\ StartsWith(s, i, <<"#", "e", "g", "g", "=">>)
       /\ i + 5 <= Len(s)
       /\ NoneIn(s, i + 5, Len(s), NewLine)
    THEN [matched |-> TRUE, name |-> SubSeq(s, i + 5, Len(s))]
    ELSE IF i = Len(s) + 1 THEN [matched |-> TRUE, name |-> NoString]
    ELSE NoMatch

\* The largest and the smallest of a set of positions
Last(C) == CHOOSE j \in C : \A k \in C : k <= j
First(C) == CHOOSE j \in C : \A k \in C : j <= k

\* A group is added to the match of the rest of the pattern; no match stays
\* no match
Attach(rest, group) == IF rest.matched THEN rest @@ group ELSE NoMatch

\* Backtracking: the first way to match, else the next one
OrElse(m, next) == IF m.matched THEN m ELSE next

\* rex from the group "rev" on: (?:@(?P<rev>.+))? and the rest. RevEndingIn
\* backtracks over the ends C of the greedy .+, the longest first; with no rev
\* that lets the rest match, the group takes no part
RECURSIVE RevEndingIn(_, _, _)
RevEndingIn(s, i, C) ==
    LET j == IF C = {} THEN i - 1 ELSE Last(C)
    IN  OrElse(Attach(MatchName(s, j + 1),
                      [rev |-> IF C = {} THEN NoString ELSE SubSeq(s, i + 1, j)]),
               IF C = {} THEN NoMatch ELSE RevEndingIn(s, i, C \ {j}))

\* The rest matches after a rev only at the end of s or before a "#"
MatchRev(s, i) ==
    RevEndingIn(s, i, IF i <= Len(s) /\ s[i] = "@"
                      THEN {j \in (i + 1)..Len(s) :
                               /\ j = Len(s) \/ s[j + 1] = "#"
                               /\ NoneIn(s, i + 1, j, NewLine)}
                      ELSE {})

\* rex from the group "ext" on: (?P<ext>\.git)? and the rest: with the ext
\* first when `with`, and without it last
RECURSIVE ExtFrom(_, _, _)
ExtFrom(s, i, with) ==
    OrElse(Attach(MatchRev(s, IF with THEN i + 4 ELSE i),
                  [ext |-> IF with THEN <<".", "g", "i", "t">> ELSE NoString]),
           IF with THEN ExtFrom(s, i, FALSE) ELSE NoMatch)

MatchExt(s, i) == ExtFrom(s, i, StartsWith(s, i, <<".", "g", "i", "t">>))

\* rex from the group "project" on: (?P<project>[^\s#]+?) and the rest; +? is
\* lazy: ProjectEndingIn tries the ends C of the project from the shortest on
RECURSIVE ProjectEndingIn(_, _, _)
ProjectEndingIn(s, i, C) ==
    IF C = {} THEN NoMatch
    ELSE LET j == First(C)
         IN  OrElse(Attach(MatchExt(s, j + 1), [project |-> SubSeq(s, i, j)]),
                    ProjectEndingIn(s, i, C \ {j}))

\* The rest matches after a project only at the end of s or before one of
\* ".", "@", "#"
MatchProject(s, i) ==
    ProjectEndingIn(s, i, {j \in i..Len(s) :
                              /\ j = Len(s) \/ s[j + 1] \in {".", "@", "#"}
                              /\ NoneIn(s, i, j, WhiteSpace \cup {"#"})})

\* rex from the group "author" on: (?P<author>.+)/ and the rest; .+ is greedy:
\* AuthorEndingIn tries the "/" at the positions C from the last one down
RECURSIVE AuthorEndingIn(_, _, _)
AuthorEndingIn(s, i, C) ==
    IF C = {} THEN NoMatch
    ELSE LET j == Last(C)
         IN  OrElse(Attach(MatchProject(s, j + 1), [author |-> SubSeq(s, i, j - 1)]),
                    AuthorEndingIn(s, i, C \ {j}))

MatchAuthor(s, i) ==
    AuthorEndingIn(s, i, {j \in (i + 1)..Len(s) :
                             s[j] = "/" /\ NoneIn(s, i, j - 1, NewLine)})

\* rex from the group "server" on: (?P<server>[^/]+)[:/] and the rest; [^/]+ is
\* greedy: ServerEndingIn tries the ":" or "/" at the positions C from the last
\* one down
RECURSIVE ServerEndingIn(_, _, _)
ServerEndingIn(s, i, C) ==
    IF C = {} THEN NoMatch
    ELSE LET j == Last(C)
         IN  OrElse(Attach(MatchAuthor(s, j + 1), [server |-> SubSeq(s, i, j - 1)]),
                    ServerEndingIn(s, i, C \ {j}))

MatchServer(s, i) ==
    ServerEndingIn(s, i, {j \in (i + 1)..Len(s) :
                             s[j] \in {":", "/"} /\ NoneIn(s, i, j - 1, {"/"})})

\* rex from the group "user" on: (?:(?P<user>.+)@)? and the rest; .+ is greedy:
\* UserEndingIn tries the "@" at the positions C from the last one down, and no
\* user last
RECURSIVE UserEndingIn(_, _, _)
UserEndingIn(s, i, C) ==
    LET j == IF C = {} THEN i - 1 ELSE Last(C)
    IN  OrElse(Attach(MatchServer(s, j + 1),
                      [user |-> IF C = {} THEN NoString ELSE SubSeq(s, i, j - 1)]),
               IF C = {} THEN NoMatch ELSE UserEndingIn(s, i, C \ {j}))

MatchUser(s, i) ==
    UserEndingIn(s, i, {j \in (i + 1)..Len(s) :
                           s[j] = "@" /\ NoneIn(s, i, j - 1, NewLine)})

\* The alternatives of the group "protocol", in the order the pattern tries them
Protocols == <<<<"s", "s", "h">>, <<"h", "t", "t", "p", "s">>, <<"h", "t", "t", "p">>>>

\* rex from the group "protocol" on: (?:(?P<protocol>ssh|https|http)://)? and
\* the rest, from alternative k on, and with no protocol last
RECURSIVE ProtocolFrom(_, _, _)
ProtocolFrom(s, i, k) ==
    LET none == k > Len(Protocols)
    IN  OrElse(IF none \/ StartsWith(s, i, Protocols[k] \o <<":", "/", "/">>)
               THEN Attach(MatchUser(s, IF none THEN i ELSE i + Len(Protocols[k]) + 3),
                           [protocol |-> IF none THEN NoString ELSE Protocols[k]])
               ELSE NoMatch,
               IF none THEN NoMatch ELSE ProtocolFrom(s, i, k + 1))

MatchProtocol(s, i) == ProtocolFrom(s, i, 1)

\* rex.search(link): ^(?:(?P<vcs>[a-z]+)\+)? and the rest. The group ends at a
\* "+" after letters alone (the positions C); with none that lets the rest
\* match, the group takes no part
RECURSIVE VcsEndingIn(_, _)
VcsEndingIn(s, C) ==
    LET j == IF C = {} THEN 0 ELSE Last(C)
    IN  OrElse(Attach(MatchProtocol(s, j + 1),
                      [vcs |-> IF C = {} THEN NoString ELSE SubSeq(s, 1, j - 1)]),
               IF C = {} THEN NoMatch ELSE VcsEndingIn(s, C \ {j}))

RexSearch(s) ==
    VcsEndingIn(s, {j \in 2..Len(s) :
                       s[j] = "+" /\ \A k \in 1..(j - 1) : s[k] \in LowerCase})

\* The VCSLink parse builds from the match m: the groups that took part, the
\* defaults of parse (vcs='git', rev=None, name=None) and the defaults of the
\* attributes
FromMatch(m) ==
    IF ~m.matched THEN NoMatch
    ELSE [server   |-> m.server,
          author   |-> m.author,
          project  |-> m.project,
          vcs      |-> IF m.vcs = NoString THEN <<"g", "i", "t">> ELSE m.vcs,
          protocol |-> IF m.protocol = NoString THEN <<"s", "s", "h">>
                       ELSE m.protocol,
          user     |-> m.user,
          ext      |-> m.ext,
          rev      |-> m.rev,
          name     |-> IF m.name = NoString THEN m.project ELSE m.name]

\* VCSLink.parse(link): NoMatch when the pattern does not match
Parse(s) == FromMatch(RexSearch(s))

\* VCSLink.commit: the rev when rex_hash.fullmatch accepts it, else None
Commit(l) ==
    IF l.rev = NoString THEN NoString
    ELSE IF Len(l.rev) = 40 /\ \A k \in 1..40 : l.rev[k] \in HexChars THEN l.rev
    ELSE NoString

\* VCSLink.short
Short(l) ==
    (IF l.protocol # <<"s", "s", "h">> THEN l.protocol \o <<":", "/", "/">>
     ELSE <<>>)
    \o (IF l.user # NoString THEN l.user \o <<"@">> ELSE <<>>)
    \o l.server
    \o (IF l.protocol = <<"s", "s", "h">> THEN <<":">> ELSE <<"/">>)
    \o l.author \o <<"/">> \o l.project
    \o (IF l.ext # NoString THEN l.ext ELSE <<>>)

\* The properties of a VCSLink; its other attributes are the fields of l
Properties == {"commit", "short", "long"}

\* self.<attr> on a VCSLink, for the attributes whose value is a string
GetAttr(l, attr) ==
    IF attr \in DOMAIN l THEN [err |-> NoError, val |-> l[attr]]
    ELSE IF attr = "short" THEN [err |-> NoError, val |-> Short(l)]
    ELSE [err |-> AttributeError, val |-> <<>>]

\* VCSLink.long: [err, val]
Long(l) ==
    LET link == GetAttr(l, "link")
    IN  IF link.err # NoError THEN link
        ELSE [err |-> NoError,
              val |-> l.vcs \o <<"+">> \o link.val
                        \o (IF l.rev # NoString THEN <<"@">> \o l.rev ELSE <<>>)
                        \o (IF l.name # NoString
                            THEN <<"#", "e", "g", "g", "=">> \o l.name
                            ELSE <<>>)]

\* ------------------------------------------------------------- properties

\* iter(ChainMap): the keys of the maps from the oldest to the newest, each once
RECURSIVE ChainKeys(_, _)
ChainKeys(k, seen) ==
    IF k = 0 THEN seen
    ELSE LET new == SelectSeq(MapOf(k), LAMBDA d :
                        name[d] \notin {seen[j] : j \in 1..Len(seen)})
         IN  ChainKeys(k - 1, seen \o [j \in 1..Len(new) |-> name[new[j]]])

\* ChainMap.__getitem__(key): the value in the first (newest) map that has the key
RECURSIVE ChainGet(_, _)
ChainGet(n, k) ==
    IF k > Len(deps_maps) THEN None
    ELSE IF DictGet(MapOf(k), n) # None THEN DictGet(MapOf(k), n)
    ELSE ChainGet(n, k + 1)

\* Graph.names
GraphNames ==
    LET ks == ChainKeys(Len(deps_maps), <<>>) IN {ks[j] : j \in 1..Len(ks)}

\* Graph.deps
GraphDeps ==
    LET ks == ChainKeys(Len(deps_maps), <<>>)
        vs == [j \in 1..Len(ks) |-> ChainGet(ks[j], 1)]
    IN  SelectSeq(vs, LAMBDA d : d \notin Range(roots))

\* ------------------------------------------------------------- actions

Levels == {NoLevel} \cup {<<l>> : l \in 0..MaxLevel}

\* Graph(root=None) or Graph(root): the constructor ends with reset().
\* A Dependency starts used, not applied, not locked, its children not fetched.
Init ==
    /\ roots \in {<<>>, <<"r">>}
    /\ layers = <<LayerInit(0, roots).layer>>
    /\ deps_maps = <<SharedMap>>
    /\ conflict = None
    /\ used = [d \in Deps |-> TRUE]
    /\ applied = [d \in Deps |-> FALSE]
    /\ locked = [d \in Deps |-> FALSE]
    /\ dependencies = [d \in Deps |-> <<>>]
    /\ ret = [op |-> "init", err |-> NoError]
    /\ engine = NoEngine

\* graph.add(dep, level=level)
Add(dep, level) ==
    LET r == GraphAdd(dep, level)
    IN  /\ Len(r.layers) <= MaxLayers
        /\ layers' = r.layers
        /\ deps_maps' = r.deps_maps
        /\ roots' = r.roots
        /\ ret' = [op |-> "add", err |-> r.err]
        /\ UNCHANGED <<engine, conflict, used, applied, locked, dependencies>>

\* graph.clear() looping over self._layers, the first layer included
ClearAllLayers ==
    /\ layers' = [i \in 1..Len(layers) |-> LayerClear(layers[i])]
    /\ deps_maps' = [k \in 1..Len(deps_maps) |->
                        [shared |-> FALSE, mapping |-> MapOf(k)]]
    /\ ret' = [op |-> "clear", err |-> NoError]
    /\ UNCHANGED <<engine, roots, conflict, used, applied, locked, dependencies>>

\* graph.clear(): every layer but the first binds a new dict; the dicts that
\* Graph._deps references are the old ones, which nothing changes any more
Clear ==
    /\ layers' = [i \in 1..Len(layers) |->
                     IF i = 1 THEN layers[i] ELSE LayerClear(layers[i])]
    /\ deps_maps' = [k \in 1..Len(deps_maps) |->
                        IF Len(layers) - k + 1 = 1 THEN deps_maps[k]
                        ELSE [shared |-> FALSE, mapping |-> MapOf(k)]]
    /\ ret' = [op |-> "clear", err |-> NoError]
    /\ UNCHANGED <<engine, roots, conflict, used, applied, locked, dependencies>>

\* graph.reset() with the ChainMap of Graph._deps and the conflict slot left as
\* they were
ResetLayersOnly ==
    LET r == LayerInit(0, roots)
    IN  /\ r.err = NoError
        /\ layers' = <<r.layer>>
        /\ deps_maps' = [k \in 1..Len(deps_maps) |->
                            [shared |-> FALSE, mapping |-> MapOf(k)]]
        /\ ret' = [op |-> "reset", err |-> NoError]
        /\ UNCHANGED <<engine, roots, conflict, used, applied, locked, dependencies>>

\* graph.reset()
Reset ==
    LET r == LayerInit(0, roots)
    IN  /\ r.err = NoError
        /\ layers' = <<r.layer>>
        /\ deps_maps' = <<SharedMap>>
        /\ conflict' = None
        /\ ret' = [op |-> "reset", err |-> NoError]
        /\ UNCHANGED <<engine, roots, used, applied, locked, dependencies>>

\* The caller (the resolver) marks a dependency of the graph as not needed, or
\* as needed again
SetUsed(dep, v) ==
    /\ \E i \in 1..Len(layers) : dep \in Range(layers[i].mapping)
    /\ used[dep] # v
    /\ used' = [used EXCEPT ![dep] = v]
    /\ UNCHANGED <<engine, layers, deps_maps, roots, conflict, applied, locked,
                   dependencies, ret>>

\* The caller (the resolver) commits a version of a dependency of the graph, or
\* takes the commitment back
SetApplied(dep, v) ==
    /\ \E i \in 1..Len(layers) : dep \in Range(layers[i].mapping)
    /\ applied[dep] # v
    /\ applied' = [applied EXCEPT ![dep] = v]
    /\ UNCHANGED <<engine, layers, deps_maps, roots, conflict, used, locked,
                   dependencies, ret>>

\* The child lists the resolver may fetch for a dependency: no root among them
ChildLists ==
    UNION {[1..n -> Deps \ RootDependency] : n \in 0..MaxChildren}

\* The caller (the resolver) fetches the children of a dependency of the graph
\* and locks it; no dependency is its own child
Lock(dep, children) ==
    /\ \E i \in 1..Len(layers) : dep \in Range(layers[i].mapping)
    /\ ~locked[dep]
    /\ dependencies[dep] = <<>>
    /\ dep \notin Range(children)
    /\ locked' = [locked EXCEPT ![dep] = TRUE]
    /\ dependencies' = [dependencies EXCEPT ![dep] = children]
    /\ UNCHANGED <<engine, layers, deps_maps, roots, conflict, used, applied, ret>>

\* The caller (the resolver) takes the lock of a dependency back; the children
\* it fetched stay in dep.dependencies
Unlock(dep) ==
    /\ locked[dep]
    /\ locked' = [locked EXCEPT ![dep] = FALSE]
    /\ UNCHANGED <<engine, layers, deps_maps, roots, conflict, used, applied,
                   dependencies, ret>>

\* The caller (the resolver) records a dependency of the graph, no root, in
\* graph.conflict
SetConflict(dep) ==
    /\ \E i \in 1..Len(layers) : dep \in Range(layers[i].mapping)
    /\ conflict # dep
    /\ conflict' = dep
    /\ UNCHANGED <<engine, layers, deps_maps, roots, used, applied, locked,
                   dependencies, ret>>

\* graph.add(dep, level=level) returning without an error
AddOk(dep, level) == Add(dep, level) /\ ret'.err = NoError

Next ==
    \/ \E dep \in Deps, level \in Levels : Add(dep, level)
    \/ Clear
    \/ Reset
    \/ \E dep \in Deps \ RootDependency, v \in BOOLEAN : SetUsed(dep, v)

Spec == Init /\ [][Next]_vars

\* Graphs built by add alone, the resolver setting the flags of the instances
NextLeafs ==
    \/ \E dep \in Deps, level \in Levels : Add(dep, level)
    \/ \E dep \in Deps, v \in BOOLEAN : SetUsed(dep, v)
    \/ \E dep \in Deps, v \in BOOLEAN : SetApplied(dep, v)

SpecLeafs == Init /\ [][NextLeafs]_vars

\* Graphs built by add alone, no level given beyond the next layer, the resolver
\* fetching children, locking and unlocking
NextTraverse ==
    \/ \E dep \in Deps, level \in Levels :
          /\ IF level = NoLevel THEN TRUE ELSE level[1] <= Len(layers)
          /\ AddOk(dep, level)
    \/ \E dep \in Deps, children \in ChildLists : Lock(dep, children)
    \/ \E dep \in Deps : Unlock(dep)

SpecTraverse == Init /\ [][NextTraverse]_vars

\* Graphs built by add, clear and reset, the resolver recording conflicts and
\* marking "a" as not needed
NextReset ==
    \/ \E dep \in Deps, level \in Levels : Add(dep, level)
    \/ Clear
    \/ Reset
    \/ \E dep \in Deps \ RootDependency : SetConflict(dep)
    \/ SetUsed("a", FALSE)

SpecReset == Init /\ [][NextReset]_vars

\* Graphs built by add, clear and reset, the resolver marking roots as not
\* needed, or as needed again
NextRoots ==
    \/ \E dep \in Deps, level \in Levels : Add(dep, level)
    \/ Clear
    \/ Reset
    \/ \E dep \in RootDependency, v \in BOOLEAN : SetUsed(dep, v)

SpecRoots == Init /\ [][NextRoots]_vars

\* ------------------------------------------------------------- links

\* The links handed to VCSLink.parse: an optional "vcs+", an optional protocol,
\* an optional user, server, ":" or "/", author/project, an optional ".git", an
\* optional "@rev" and an optional "#egg=name"; and one text that is no link
Hash40 == [k \in 1..40 |->
            <<"0", "a", "1", "B", "2", "c", "3", "D", "4", "e", "5", "F">>[(k % 12) + 1]]

Revs ==
    {Hash40,
     SubSeq(Hash40, 1, 39),
     Hash40 \o <<"7">>,
     [Hash40 EXCEPT ![17] = "g"],
     <<"v", "1">>}

LinkInputs ==
    {v \o p \o u \o <<"g", "i", "t", "h", "u", "b", ".", "c", "o", "m">> \o sep \o <<"o", "r", "g", "/", "r", "e", "p", "o">> \o e \o r \o n :
        v \in {<<>>, <<"g", "i", "t", "+">>, <<"h", "g", "+">>},
        p \in {<<>>, <<"s", "s", "h", ":", "/", "/">>,
               <<"h", "t", "t", "p", "s", ":", "/", "/">>},
        u \in {<<>>, <<"g", "i", "t", "@">>},
        sep \in {<<":">>, <<"/">>},
        e \in {<<>>, <<".", "g", "i", "t">>},
        r \in {<<>>} \cup {<<"@">> \o rev : rev \in Revs},
        n \in {<<>>, <<"#", "e", "g", "g", "=", "x">>}}
    \cup {<<"r", "e", "p", "o">>}

\* link = VCSLink.parse(text)
ParseLink(text) ==
    /\ ret' = [op |-> "parse", err |-> NoError, source |-> text,
               link |-> Parse(text), val |-> <<>>]
    /\ UNCHANGED <<engine, layers, deps_maps, roots, conflict, used, applied, locked,
                   dependencies>>

\* link.short, for the link just parsed
RenderShort ==
    /\ ret.op = "parse"
    /\ ret.link # NoMatch
    /\ ret' = [ret EXCEPT !.op = "short", !.val = Short(ret.link)]
    /\ UNCHANGED <<engine, layers, deps_maps, roots, conflict, used, applied, locked,
                   dependencies>>

\* link.long, for the link just parsed
RenderLong ==
    /\ ret.op = "parse"
    /\ ret.link # NoMatch
    /\ LET r == Long(ret.link)
       IN  ret' = [ret EXCEPT !.op = "long", !.err = r.err, !.val = r.val]
    /\ UNCHANGED <<engine, layers, deps_maps, roots, conflict, used, applied, locked,
                   dependencies>>

\* A link is parsed, rendered in one of the two forms, and what was rendered is
\* parsed in turn
NextLink ==
    \/ \E text \in LinkInputs : ret.op = "init" /\ ParseLink(text)
    \/ /\ ret.op \in {"short", "long"}
       /\ ret.err = NoError
       /\ ParseLink(ret.val)
    \/ RenderShort
    \/ RenderLong

SpecLink == Init /\ [][NextLink]_vars

\* ------------------------------------------------------------- what holds a name

\* The indexes of the layers that hold a name
Holders(n) == {i \in 1..Len(layers) : n \in Keys(layers[i].mapping)}

\* Every instance some layer currently holds
Graphed == UNION {Range(layers[i].mapping) : i \in 1..Len(layers)}

\* Every name some layer currently holds
GraphedNames == UNION {Keys(layers[i].mapping) : i \in 1..Len(layers)}

Max(S) == CHOOSE x \in S : \A y \in S : y <= x

Min0(S) == CHOOSE x \in S : \A y \in S : x <= y

\* ------------------------------------------------------------- Resolution Engine

\* Version numbers, and a parent's constraint on a child as the set of the
\* versions it allows
Versions == 1..MaxVersion
Specs == SUBSET Versions \ {{}}

\* The children one candidate declares: (childName, childConstraint) each,
\* no name twice
RequireLists(ns) ==
    {l \in UNION {[1..k -> [name : ns, spec : Specs]] : k \in 0..MaxRequires} :
        \A i, j \in 1..Len(l) : i # j => l[i].name # l[j].name}

\* The finite Version Providers: the versions each package has, and the
\* children of each version. The root has its one candidate, whose children
\* are the manifest's requirements; "b" may require "a".
Providers ==
    {[versions |-> [n \in Names |-> IF n = "r" THEN {1}
                                    ELSE IF n = "a" THEN va ELSE Versions],
      children |-> [n \in Names |-> [v \in Versions |->
                       IF n = "r" THEN rl ELSE IF n = "b" THEN bl[v] ELSE <<>>]]] :
        va \in Specs, rl \in RequireLists({"a", "b"}),
        bl \in [Versions -> RequireLists({"a"})]}

\* No parent has contributed a constraint
NoConstraint == [n \in Names |-> Versions]

\* candidates(name, constraint) of the provider for dep, less the candidates
\* rejected for this node
Candidates(dep) ==
    {v \in engine.provider.versions[name[dep]] :
        \A n \in Names : v \in engine.constraint[dep][n]} \ engine.excluded[dep]

\* Pruning is due: an entry below layer 0 is no longer used
PruneDue ==
    \E i \in 2..Len(layers) : \E d \in Range(layers[i].mapping) : ~used[d]

\* The engine is between two steps of its loop
AtLoop ==
    /\ engine.status = "running"
    /\ conflict = None
    /\ engine.current = None
    /\ ~PruneDue

\* A resolution starts on a graph holding the root alone
InitEngine ==
    /\ roots = <<"r">>
    /\ layers = <<LayerInit(0, roots).layer>>
    /\ deps_maps = <<SharedMap>>
    /\ conflict = None
    /\ used = [d \in Deps |-> TRUE]
    /\ applied = [d \in Deps |-> FALSE]
    /\ locked = [d \in Deps |-> FALSE]
    /\ dependencies = [d \in Deps |-> <<>>]
    /\ ret = [op |-> "init", err |-> NoError]
    /\ \E p \in Providers :
          engine = [status |-> "running", provider |-> p, queue |-> <<>>,
                    current |-> None, pending |-> <<>>,
                    version |-> [d \in Deps |-> 0],
                    excluded |-> [d \in Deps |-> {}],
                    constraint |-> [d \in Deps |-> NoConstraint]]

\* Loop step 1: frontier = graph.get_leafs(); empty => done
ReadFrontier ==
    /\ AtLoop
    /\ engine.queue = <<>>
    /\ LET frontier == GetLeafs(NoLevel)
       IN  engine' = IF frontier = <<>> THEN [engine EXCEPT !.status = "done"]
                     ELSE [engine EXCEPT !.queue = frontier]
    /\ UNCHANGED <<layers, deps_maps, roots, conflict, used, applied, locked,
                   dependencies, ret>>

\* Loop step 2 for the next frontier dependency: none of its candidates
\* satisfies the merged constraint => it is recorded in graph.conflict;
\* otherwise the best one is picked, locked = true and its children are fetched
Query ==
    /\ AtLoop
    /\ engine.queue # <<>>
    /\ LET dep == Head(engine.queue)
       IN  IF Candidates(dep) = {}
           THEN /\ conflict' = dep
                /\ engine' = [engine EXCEPT !.queue = <<>>]
                /\ UNCHANGED <<locked, dependencies>>
           ELSE LET v == Max(Candidates(dep))
                IN  /\ engine' = [engine EXCEPT
                                     !.current = dep,
                                     !.version[dep] = v,
                                     !.pending = engine.provider.children[name[dep]][v]]
                    /\ locked' = [locked EXCEPT ![dep] = TRUE]
                    /\ dependencies' = [dependencies EXCEPT ![dep] = <<>>]
                    /\ UNCHANGED conflict
    /\ UNCHANGED <<layers, deps_maps, roots, used, applied, ret>>

\* The entries named n in the layers of level `level` and deeper
AtOrBeyond(n, level) ==
    {d \in Deps : \E i \in (level + 1)..Len(layers) :
        d \in Range(layers[i].mapping) /\ name[d] = n}

\* Materialize the next child of the dependency being committed: at
\* dependency.level + 1, merged into an entry of its name at or beyond that
\* depth when there is one
Materialize ==
    /\ engine.status = "running"
    /\ engine.current # None
    /\ engine.pending # <<>>
    /\ LET dep == engine.current
           child == Head(engine.pending)
           level == GetLayerOf(dep)[1].level + 1
       IN  IF AtOrBeyond(child.name, level) # {}
           THEN LET old == Get(child.name)
                IN  /\ engine' = [engine EXCEPT
                                     !.pending = Tail(@),
                                     !.constraint[old][name[dep]] = child.spec]
                    /\ dependencies' = [dependencies EXCEPT ![dep] = Append(@, old)]
                    /\ UNCHANGED <<layers, deps_maps, used, applied, locked, ret>>
           ELSE LET new == CHOOSE d \in Deps \ Graphed :
                               name[d] = child.name /\ name[dep] \in sources[d]
                    r == GraphAdd(new, <<level>>)
                IN  /\ layers' = r.layers
                    /\ deps_maps' = r.deps_maps
                    /\ ret' = [op |-> "add", err |-> r.err]
                    /\ used' = [used EXCEPT ![new] = TRUE]
                    /\ applied' = [applied EXCEPT ![new] = FALSE]
                    /\ locked' = [locked EXCEPT ![new] = FALSE]
                    /\ dependencies' = [dependencies EXCEPT
                                           ![new] = <<>>, ![dep] = Append(@, new)]
                    /\ engine' = [engine EXCEPT
                                     !.pending = Tail(@),
                                     !.version[new] = 0,
                                     !.constraint[new] =
                                         [NoConstraint EXCEPT ![name[dep]] = child.spec]]
    /\ UNCHANGED <<roots, conflict>>

\* Every child is materialized: applied = true, on to the next of the frontier
Apply ==
    /\ engine.status = "running"
    /\ engine.current # None
    /\ engine.pending = <<>>
    /\ applied' = [applied EXCEPT ![engine.current] = TRUE]
    /\ engine' = [engine EXCEPT !.current = None, !.queue = Tail(@)]
    /\ UNCHANGED <<layers, deps_maps, roots, conflict, used, locked,
                   dependencies, ret>>

\* Backtracking: graph.get_parents(conflicting_dep); with no ancestor left to
\* re-open the resolution fails; otherwise the candidate of one of them is
\* excluded for it, applied and locked are cleared on the ancestors and on the
\* conflicting dependency, and their children are no longer used
Backtrack ==
    /\ engine.status = "running"
    /\ conflict # None
    /\ LET parents == GetParents(<<conflict>>, {})
           ancestors == Range(parents.result)
           open == {x \in ancestors : Candidates(x) \ {engine.version[x]} # {}}
           cleared == ancestors \cup {conflict}
           children == UNION {Range(dependencies[x]) : x \in ancestors}
       IN  IF parents.err # NoError \/ open = {}
           THEN /\ engine' = [engine EXCEPT !.status = "failed"]
                /\ ret' = [op |-> "resolve",
                           err |-> IF parents.err # NoError THEN parents.err
                                   ELSE UnsatisfiableConstraintError]
                /\ UNCHANGED <<conflict, used, applied, locked, dependencies>>
           ELSE \E x \in open :
                /\ engine' = [engine EXCEPT
                      !.excluded[x] = @ \cup {engine.version[x]},
                      !.version = [d \in Deps |->
                                      IF d \in cleared \cup children THEN 0 ELSE @[d]],
                      !.constraint = [d \in Deps |->
                                      IF d \in children THEN NoConstraint ELSE @[d]]]
                /\ applied' = [d \in Deps |-> IF d \in cleared THEN FALSE ELSE applied[d]]
                /\ locked' = [d \in Deps |-> IF d \in cleared THEN FALSE ELSE locked[d]]
                /\ used' = [d \in Deps |-> IF d \in children THEN FALSE ELSE used[d]]
                /\ dependencies' = [d \in Deps |->
                                      IF d \in cleared THEN <<>> ELSE dependencies[d]]
                /\ conflict' = None
                /\ UNCHANGED ret
    /\ UNCHANGED <<layers, deps_maps, roots>>

\* graph.prune() of the children the backtracking dropped
Prune ==
    /\ engine.status = "running"
    /\ PruneDue
    /\ Clear

NextEngine ==
    \/ ReadFrontier
    \/ Query
    \/ Materialize
    \/ Apply
    \/ Backtrack
    \/ Prune

SpecEngine == InitEngine /\ [][NextEngine]_vars

\* ------------------------------------------------------------- C3

\* C3 (as claimed, two instances of one name counted as the deeper one): in
\* every state reached by add, clear and reset, `names` is the union of the keys
\* of the current layers, every instance in `deps` is held by a layer and is no
\* root, and every instance that is the deepest of its name and no root is in
\* `deps`.
C3_NamesDepsFollowLayers ==
    /\ GraphNames = GraphedNames
    /\ Range(GraphDeps) \subseteq Graphed \ Range(roots)
    /\ \A n \in GraphedNames : Get(n) \in Range(GraphDeps) \cup Range(roots)

\* ------------------------------------------------------------- C4

\* C4 (as claimed, layer 0 read as the roots' layer): right after clear() every
\* instance held by a layer below layer 0 has used = TRUE, and what clear()
\* removed is not seen again by a property read: every name in `names` and every
\* instance in `deps` is held by a layer.
C4_PruneLeavesOnlyUsed ==
    [][Clear =>
        /\ \A i \in 2..Len(layers') : \A d \in Range(layers'[i].mapping) : used'[d]
        /\ GraphNames' \subseteq GraphedNames'
        /\ Range(GraphDeps') \subseteq Graphed']_vars

\* ------------------------------------------------------------- C5

\* C5: for every name, get(name) is the instance stored under that name in the
\* deepest layer holding the name, and it is None only when no layer holds it.
C5_GetDeepest ==
    \A n \in Names :
        IF Holders(n) = {}
        THEN Get(n) = None
        ELSE /\ Get(n) # None
             /\ name[Get(n)] = n
             /\ Get(n) \in Range(layers[Max(Holders(n))].mapping)

\* C5 witness: a name held by two layers as two instances, get returning the
\* one of the deeper layer.
C5_Witness ==
    \E n \in Names : \E i, j \in Holders(n) :
        /\ i < j
        /\ j = Max(Holders(n))
        /\ LayerGet(layers[i], n) # LayerGet(layers[j], n)
        /\ Get(n) = LayerGet(layers[j], n)

\* ------------------------------------------------------------- C6

\* No dict, of a layer or referenced by Graph._deps, holds a name twice
NoDuplicateNames ==
    /\ \A i \in 1..Len(layers) :
           \A k, l \in 1..Len(layers[i].mapping) :
               name[layers[i].mapping[k]] = name[layers[i].mapping[l]] => k = l
    /\ \A m \in 1..Len(deps_maps) :
           \A k, l \in 1..Len(MapOf(m)) :
               name[MapOf(m)[k]] = name[MapOf(m)[l]] => k = l

\* C6: no layer ever holds two dependencies of one name; on every layer of the
\* graph, Layer.add of a dependency whose name is a key of the layer raises the
\* duplicate-name KeyError and keeps the layer as it was, the entry stored under
\* that name included; Layer.add of any other dependency stores it and keeps
\* every other entry.
C6_LayerAddUnique ==
    /\ NoDuplicateNames
    /\ \A i \in 1..Len(layers) : \A dep \in Deps :
          LET r == LayerAdd(layers[i], dep)
          IN  IF name[dep] \in Keys(layers[i].mapping)
              THEN /\ r.err = DuplicateError
                   /\ Len(r.layer.mapping) = Len(layers[i].mapping)
                   /\ LayerGet(r.layer, name[dep]) = LayerGet(layers[i], name[dep])
              ELSE /\ r.err = NoError
                   /\ LayerGet(r.layer, name[dep]) = dep
                   /\ \A n \in Keys(layers[i].mapping) :
                          LayerGet(r.layer, n) = LayerGet(layers[i], n)

\* C6 witness: an add has just raised the duplicate-name error while a layer
\* holds instance "a" and no layer holds "a2", the other instance of that name.
C6_Witness ==
    /\ ret.op = "add"
    /\ ret.err = DuplicateError
    /\ \E i \in 1..Len(layers) : "a" \in Range(layers[i].mapping)
    /\ \A i \in 1..Len(layers) : "a2" \notin Range(layers[i].mapping)

\* ------------------------------------------------------------- C7

\* C7 (as claimed, the case of a duplicate name in the target layer left
\* aside): add(dep) without a level, dep not a root, puts dep at depth d + 1, d
\* being the depth of the first layer, from the shallowest, that holds one of
\* dep's parents (the layer at index d + 1 then holds dep and is of level
\* d + 1); with no parent in any layer it raises the orphan KeyError.
C7_AddBelowShallowestParent ==
    [][\A dep \in Deps \ RootDependency :
         (Add(dep, NoLevel) /\ ret'.err # DuplicateError) =>
            IF ParentPlaces(dep) = {}
            THEN ret'.err = OrphanError
            ELSE LET d == Min0({p[1] : p \in ParentPlaces(dep)}) - 1
                 IN  /\ Len(layers') >= d + 2
                     /\ dep \in Range(layers'[d + 2].mapping)
                     /\ layers'[d + 2].level = d + 1]_vars

\* ------------------------------------------------------------- C8

\* C8 (as claimed): add(dep, level=L), dep not a root, when it succeeds leaves
\* get_layer(L) a layer of level L holding dep, and every layer's level is its
\* index.
C8_AddAtLevel ==
    [][\A dep \in Deps \ RootDependency, l \in 0..MaxLevel :
         (Add(dep, <<l>>) /\ ret'.err = NoError) =>
            /\ Len(layers') > l
            /\ GetLayerAt(l)'.level = l
            /\ dep \in Range(GetLayerAt(l)'.mapping)
            /\ \A i \in 1..Len(layers') : layers'[i].level = i - 1]_vars

\* ------------------------------------------------------------- C2

\* The places (layer index, position) within the first n layers that hold a
\* dependency with used and not applied
LeafPlaces(n) ==
    {p \in (1..Min(n, Len(layers))) \X (1..Cardinality(Deps)) :
        /\ p[2] <= Len(layers[p[1]].mapping)
        /\ used[layers[p[1]].mapping[p[2]]]
        /\ ~applied[layers[p[1]].mapping[p[2]]]}

\* How many places of S come at or before place p, by layer and then position
Rank(p, S) ==
    Cardinality({q \in S : q[1] < p[1] \/ (q[1] = p[1] /\ q[2] <= p[2])})

\* The number of layers get_leafs(level) is to look at
LeafBound(level) == IF level = NoLevel THEN Len(layers) ELSE level[1] + 1

\* C2 (as claimed): get_leafs(level) holds exactly the instances with used and
\* not applied of the layers 0..level, and none of them twice.
C2_LeafsNoDuplicates ==
    \A level \in Levels :
        LET res == GetLeafs(level)
        IN  /\ Range(res) = {layers[p[1]].mapping[p[2]] : p \in LeafPlaces(LeafBound(level))}
            /\ \A i, j \in 1..Len(res) : res[i] = res[j] => i = j

\* C2 (amended): get_leafs(level) has one entry for every place (layer, position)
\* of the layers 0..level that holds an instance with used and not applied, in
\* the order of the places by layer index and then insertion order; an instance
\* held by several of these layers is there once for each.
C2_LeafsPerPlace ==
    \A level \in Levels :
        LET res == GetLeafs(level)
            P == LeafPlaces(LeafBound(level))
        IN  /\ Len(res) = Cardinality(P)
            /\ \A p \in P : res[Rank(p, P)] = layers[p[1]].mapping[p[2]]

\* C2 witness: two layers, get_leafs(0) shorter than get_leafs(), an instance that
\* is in a layer and left out for being applied, and one instance returned twice.
C2_Witness ==
    /\ Len(layers) = 2
    /\ Len(GetLeafs(<<0>>)) < Len(GetLeafs(NoLevel))
    /\ \E d \in Graphed : applied[d] /\ d \notin Range(GetLeafs(NoLevel))
    /\ \E i, j \in 1..Len(GetLeafs(NoLevel)) :
          i < j /\ GetLeafs(NoLevel)[i] = GetLeafs(NoLevel)[j]

\* ------------------------------------------------------------- C1

\* The instances get_children(dep) is to reach: the children, of a name some
\* layer holds, of dep and of every instance reached, as far as these are locked
RECURSIVE Descendants(_, _)
Descendants(dep, S) ==
    LET T == S \cup {c \in Deps : \E x \in S \cup {dep} :
                        /\ locked[x]
                        /\ c \in Range(dependencies[x])
                        /\ name[c] \in GraphedNames}
    IN  IF T = S THEN S ELSE Descendants(dep, T)

\* C1 (as claimed): get_children(dep) returns, on every graph, cyclic ones
\* included, and its result has one entry for each name of a graphed descendant.
C1_ChildrenTerminates ==
    \A dep \in Deps :
        /\ GetChildren(dep).err = NoError
        /\ Keys(GetChildren(dep).result)
             = {name[c] : c \in Descendants(dep, {})}

\* ------------------------------------------------------------- C9

\* The graphed instances from which the name of dep is reached along
\* `dependencies`, a child standing for every graphed instance of its name
RECURSIVE Ancestors(_, _)
Ancestors(dep, S) ==
    LET T == S \cup {x \in Graphed : \E c \in Range(dependencies[x]) :
                        name[c] \in {name[dep]} \cup {name[y] : y \in S}}
    IN  IF T = S THEN S ELSE Ancestors(dep, T)

\* C9 (as claimed): get_parents(dep) returns, and what it returns is exactly the
\* set of graphed instances from which dep is reachable.
C9_ParentsAreAllAncestors ==
    \A dep \in Deps :
        /\ GetParents(<<dep>>, {}).err = NoError
        /\ Range(GetParents(<<dep>>, {}).result) = Ancestors(dep, {})

\* C9 (amended): get_parents(dep) returns on every graph, cyclic ones included;
\* every instance it returns is a graphed instance from which dep is reachable,
\* and the names it returns are exactly the names of these instances: of two
\* such instances of one name it returns one.
C9_ParentsAreAncestorNames ==
    \A dep \in Deps :
        LET r == GetParents(<<dep>>, {})
        IN  /\ r.err = NoError
            /\ Range(r.result) \subseteq Ancestors(dep, {})
            /\ Keys(r.result) = {name[x] : x \in Ancestors(dep, {})}

\* C9 witness: a cycle (dep is its own ancestor and is returned), and two
\* graphed ancestors of one name of which one is returned.
C9_Witness ==
    /\ "b" \in Range(GetParents(<<"b">>, {}).result)
    /\ {"a", "a2"} \subseteq Ancestors("b", {})
    /\ "a" \notin Range(GetParents(<<"b">>, {}).result)

\* ------------------------------------------------------------- C10

\* The calls get_parents(*deps, avoid=S) looked at
DepArgs == {<<d>> : d \in Deps} \cup {<<d, e>> : d, e \in Deps \ RootDependency}

\* C10 (as claimed): no instance whose name is in avoid is among the parents
\* get_parents(deps, avoid=S) returns.
C10_NoParentNamedInAvoid ==
    \A deps \in DepArgs, S \in SUBSET Names :
        \A y \in Range(GetParents(deps, S).result) : name[y] \notin S

\* ------------------------------------------------------------- C11

\* C11: reset() leaves exactly one layer, of level 0, holding the registered
\* roots and nothing else, an empty conflict slot, `names` equal to the set of
\* the roots' names and `deps` empty, and the list of roots as it was.
C11_ResetToRoots ==
    [][Reset =>
        /\ Len(layers') = 1
        /\ layers'[1].level = 0
        /\ layers'[1].mapping = roots
        /\ conflict' = None
        /\ GraphNames' = {name[d] : d \in Range(roots)}
        /\ GraphDeps' = <<>>
        /\ roots' = roots]_vars

\* C11 witness: reset has just returned on a graph with a root that held "a"
\* before (used is set on graphed dependencies alone, and no add came after the
\* reset), and the graph is back to its root.
C11_Witness ==
    /\ ret.op = "reset"
    /\ ~used["a"]
    /\ roots = <<"r">>
    /\ Len(layers) = 1
    /\ conflict = None
    /\ GraphNames = {"r"}

\* ------------------------------------------------------------- C15

\* No instance is reached from itself along the `dependencies` lists of locked
\* instances
Acyclic == \A x \in Deps : x \notin Descendants(x, {})

\* C15 (as claimed): get_children(dep) is empty when dep is not locked; when dep
\* is locked, on an acyclic graph, it returns exactly the instances of a graphed
\* name reached from dep through the `dependencies` lists of locked instances.
C15_ChildrenAreDescendants ==
    \A dep \in Deps :
        /\ ~locked[dep] => GetChildren(dep) = [err |-> NoError, result |-> <<>>]
        /\ (locked[dep] /\ Acyclic) =>
              /\ GetChildren(dep).err = NoError
              /\ Range(GetChildren(dep).result) = Descendants(dep, {})

\* C15 (amended): get_children(dep) is empty when dep is not locked; when dep is
\* locked, on an acyclic graph, it returns a dict keyed by name whose keys are
\* exactly the names of the instances of a graphed name reached from dep through
\* the `dependencies` lists of locked instances, each key with one of these
\* instances: of two reached instances of one name it returns one.
C15_ChildrenAreDescendantNames ==
    \A dep \in Deps :
        /\ ~locked[dep] => GetChildren(dep) = [err |-> NoError, result |-> <<>>]
        /\ (locked[dep] /\ Acyclic) =>
              LET r == GetChildren(dep)
              IN  /\ r.err = NoError
                  /\ Range(r.result) \subseteq Descendants(dep, {})
                  /\ Keys(r.result) = {name[c] : c \in Descendants(dep, {})}

\* C15 witness: an acyclic graph in which locked "b" lists "a" and locked "a"
\* lists "a2", unlocked: get_children(b) holds "a2" alone under the name both
\* share, and get_children(a2) is empty.
C15_Witness ==
    /\ Acyclic
    /\ locked["b"] /\ locked["a"] /\ ~locked["a2"]
    /\ {"a", "a2"} \subseteq Descendants("b", {})
    /\ GetChildren("b").result = <<"a2">>
    /\ GetChildren("a2").result = <<>>

\* ------------------------------------------------------------- C14

\* git@github.com:org/repo.git@<rev>
ClaimedLink(rev) == <<"g", "i", "t", "@", "g", "i", "t", "h", "u", "b", ".", "c", "o", "m", ":", "o", "r", "g", "/", "r", "e", "p", "o", ".", "g", "i", "t">> \o <<"@">> \o rev

\* The attributes the claim compares
Compared == {"vcs", "protocol", "user", "server", "author", "project", "rev"}

\* C14 (as claimed): parsing git@github.com:org/repo.git@<rev> gives a link of
\* vcs git and protocol ssh whose commit is the rev exactly when the rev is 40
\* hex characters; and for such a rev the long form of the link is rendered
\* without an error and parses to a link with the same vcs, protocol, user,
\* server, author, project and rev.
C14_LinkRoundTrip ==
    \A rev \in Revs :
        (ret.op \in {"parse", "long"} /\ ret.source = ClaimedLink(rev)) =>
            /\ ret.link # NoMatch
            /\ ret.link.vcs = <<"g", "i", "t">>
            /\ ret.link.protocol = <<"s", "s", "h">>
            /\ ret.link.rev = rev
            /\ Commit(ret.link) = (IF rev = Hash40 THEN rev ELSE NoString)
            /\ (ret.op = "long" /\ rev = Hash40) =>
                  /\ ret.err = NoError
                  /\ LET again == Parse(ret.val)
                     IN  /\ again # NoMatch
                         /\ \A f \in Compared : again[f] = ret.link[f]

\* ------------------------------------------------------------- C16

\* C16: in graphs built by add alone (the resolver setting flags), no step takes
\* an entry out of a layer or puts another in its place, whatever the other
\* layers hold under the same name: two instances of one name in two layers
\* stay two, and get(name) stays with the deeper layer's.
C16_NoMergeAcrossLayers ==
    [][/\ Len(layers') >= Len(layers)
       /\ \A i \in 1..Len(layers) :
             /\ Len(layers'[i].mapping) >= Len(layers[i].mapping)
             /\ \A k \in 1..Len(layers[i].mapping) :
                   layers'[i].mapping[k] = layers[i].mapping[k]
       /\ \A n \in Names :
             Cardinality(Holders(n)') >= 2 =>
                Get(n)' \in Range(layers'[Max(Holders(n)')].mapping)]_vars

\* C16 witness: instance "a" in layer 0 or 1 and instance "a2" of the same name
\* in a deeper layer, put there by an add that came after the one of "a"; the
\* shallower one applied, the deeper one, which get returns, not applied.
C16_Witness ==
    \E i, j \in 1..Len(layers) :
        /\ i < j
        /\ "a" \in Range(layers[i].mapping)
        /\ "a2" \in Range(layers[j].mapping)
        /\ applied["a"] /\ ~applied["a2"]
        /\ Get("a") = "a2"
        /\ ret = [op |-> "add", err |-> NoError]

\* ------------------------------------------------------------- C17

\* C17: an add that raises (a duplicate name in the target layer, a duplicate
\* root name in layer 0, no parent found) leaves the layers and what each
\* holds, the roots, `names`, `deps` and the conflict slot as they were.
C17_FailedAddChangesNothing ==
    [][(/\ ret'.op = "add"
        /\ ret'.err # NoError
        /\ \E dep \in Deps, level \in Levels : Add(dep, level)) =>
            /\ layers' = layers
            /\ roots' = roots
            /\ conflict' = conflict
            /\ GraphNames' = GraphNames
            /\ GraphDeps' = GraphDeps]_vars

\* C17 witness: an add has just raised the orphan error on a graph of two
\* layers with a conflict recorded.
C17_Witness ==
    /\ ret = [op |-> "add", err |-> OrphanError]
    /\ Len(layers) = 2
    /\ conflict # None

\* ------------------------------------------------------------- C18

\* C18: in every state reached by add, clear and reset, whatever `used` the
\* roots have, every registered root is the entry of layer 0 under its name and
\* no two registered roots share a name; and add of a root, from that state,
\* either stores it in layer 0 and registers it last, or raises and registers
\* nothing.
C18_RootsStayInLayerZero ==
    /\ \A i \in 1..Len(roots) : LayerGet(layers[1], name[roots[i]]) = roots[i]
    /\ \A i, j \in 1..Len(roots) : name[roots[i]] = name[roots[j]] => i = j
    /\ \A root \in RootDependency :
          LET r == GraphAdd(root, NoLevel)
          IN  IF r.err = NoError
              THEN /\ r.roots = Append(roots, root)
                   /\ LayerGet(r.layers[1], name[root]) = root
              ELSE /\ r.roots = roots
                   /\ r.layers = layers

\* C18 witness: clear() has just returned on a graph of two layers whose
\* registered root has used = FALSE.
C18_Witness ==
    /\ ret.op = "clear"
    /\ roots = <<"r">>
    /\ ~used["r"]
    /\ Len(layers) = 2
    /\ LayerGet(layers[1], "r") = "r"

\* ------------------------------------------------------------- C12, C13

\* What the committed parents of the graph require of the package named n:
\* [parent, spec] for each requirement the chosen candidate of an applied
\* entry declares on n
Contributed(n) ==
    UNION {{[parent |-> name[p], spec |-> c.spec] :
               c \in {e \in Range(engine.provider.children[name[p]][engine.version[p]]) :
                         e.name = n}} :
           p \in {d \in Graphed : applied[d] /\ engine.version[d] # 0}}

====
